---- MODULE Spec2Model ----
(***************************************************************************)
(* libaccl: the pattern store (libaccl::pattern::points) and the layered   *)
(* hypersphere generator (libaccl::pattern::hypersphere) built on it.      *)
(*                                                                         *)
(* Spec       : the hypersphere constructor, one step per slice of the     *)
(*              octant recursion and one step per symmetry pass.           *)
(* SpecLive   : Spec with the constructor's steps taken while there are    *)
(*              any.                                                       *)
(* SpecSymmetry : the constructor with the symmetry passes taken one       *)
(*              element of the copied map at a time.                       *)
(* SpecPoints : the pattern store alone, under arbitrary set() calls and   *)
(*              queries.                                                   *)
(* SpecLinear : the linear hashtable (libaccl::hash::linear) under         *)
(*              arbitrary insert, find, exists and operator [] calls.      *)
(*                                                                         *)
(* Axis indices (d, b) and vector indices (i, layer) are 0-based as in the *)
(* source; TLA+ sequences are 1-based, so element j of a vector v is       *)
(* v[j + 1].                                                               *)
(***************************************************************************)
EXTENDS Integers, Sequences, FiniteSets, TLC

VARIABLES
    dimension,  \* constructor argument: space dimension
    layers,     \* constructor argument: layers' radii, outer to inner
    garbage,    \* what a read past the end of a vector's storage yields
    m_impl,     \* points::m_impl, the map point -> payload
    pc,         \* position in the constructor / state of the store object
    stack,      \* activation records of octant(), innermost last
    d,          \* loop variable of the running symmetry loop
    inserted,   \* history: the set() calls made so far, in order
    result,     \* outcome of the last query
    m_hash_fn,  \* linear::m_hash_fn, the hash functors
    m_tab,      \* linear::m_tab, the slots
    m_item_cnt, \* linear::m_item_cnt
    m_capacity, \* linear::m_capacity
    returned,   \* history: the items insert() stored, with the index returned
    points,     \* symmetry: the copy of the map a pass runs through, in order
    it          \* symmetry: number of elements of the copy for_each has done

\* the members of the hashtable, and the history of its insert() calls
linear_vars == <<m_hash_fn, m_tab, m_item_cnt, m_capacity, returned>>

\* the locals of a symmetry pass
pass_vars == <<points, it>>

vars == <<dimension, layers, garbage, m_impl, pc, stack, d, inserted, result,
          linear_vars, pass_vars>>

(***************************************************************************)
(* Bounds of the model.                                                    *)
(***************************************************************************)
\* largest space dimension constructed
MaxDim == 4
\* longest radii list
MaxLayers == 3
\* largest radius in 1 and 2 dimensions
MaxRadius == 7
\* largest radius in 3 dimensions
MaxRadius3 == 5
\* largest radius in 4 and more dimensions
MaxRadius4 == 1
\* radii lists a caller must not pass: radii range over
\* -MaxNegative..MaxInvalidRadius
MaxNegative == 1
MaxInvalidRadius == 2
\* pattern store alone: coordinates range over -MaxCoord..MaxCoord
MaxCoord == 1
\* pattern store alone: payloads range over 0..MaxPayload
MaxPayload == 1
\* pattern store alone: number of set() calls
MaxCalls == 3
\* symmetry passes taken element by element: largest dimension and radius
MaxDimEach == 3
MaxRadiusEach == 3
\* hashtable: tables of 1..MaxSize slots
MaxSize == 3
\* hashtable: keys range over 0..MaxKey
MaxKey == 3
\* hashtable: items' values range over 0..MaxVal
MaxVal == 1

(***************************************************************************)
(* Vectors                                                                 *)
(***************************************************************************)
\* std::vector<Base_t>(dimension, 0)
Zero(n) == [i \in 1..n |-> 0]

Max(a, b) == IF a < b THEN b ELSE a

(***************************************************************************)
(* points<Base_t, Payload_t>                                               *)
(***************************************************************************)
\* the empty std::map
EmptySet == [p \in {} |-> 0]

\* set() as an assignment m_impl[point] = payload would make it: the last
\* write wins
set_overwrite(m, point, payload) == (point :> payload) @@ m

\* points::set : m_impl.emplace(point, payload) keeps an existing entry
set(m, point, payload) ==
    IF point \in DOMAIN m THEN m ELSE m @@ (point :> payload)

\* points::size
size(m) == Cardinality(DOMAIN m)

\* operator & (point, set) : set.end() != set.get(point)
contains(m, point) == point \in DOMAIN m

\* get_payload() as a lookup m_impl[point] would make it: an absent point
\* yields a default payload instead of the exception
get_payload_default(m, point) ==
    [status |-> "ok", payload |-> IF point \in DOMAIN m THEN m[point] ELSE 0]

\* points::get_payload : the payload, or the std::runtime_error
get_payload(m, point) ==
    IF point \in DOMAIN m
    THEN [status |-> "ok", payload |-> m[point]]
    ELSE [status |-> "runtime_error", payload |-> 0]

\* operator < of std::vector: lexicographic
LexLess(p, q) ==
    \/ \E i \in 1..Len(p) :
          /\ i <= Len(q)
          /\ p[i] < q[i]
          /\ \A j \in 1..i - 1 : p[j] = q[j]
    \/ /\ Len(p) < Len(q)
       /\ \A j \in 1..Len(p) : p[j] = q[j]

\* begin() .. end(): the entries of the points in S, in the map's order
RECURSIVE Entries(_, _)
Entries(m, S) ==
    IF S = {} THEN <<>>
    ELSE LET x == CHOOSE x \in S : \A y \in S \ {x} : LexLess(x, y)
         IN  <<[point |-> x, payload |-> m[x]]>> \o Entries(m, S \ {x})

\* a run of set() calls, in order
RECURSIVE SetAll(_, _, _)
SetAll(m, calls, i) ==
    IF i > Len(calls) THEN m
    ELSE CHOOSE r \in {SetAll(m2, calls, i + 1) :
                          m2 \in {set(m, calls[i].point, calls[i].payload)}} : TRUE

(***************************************************************************)
(* hypersphere::octant, the 1D fixed point                                 *)
(***************************************************************************)
\* layers[j] for a vector of n elements kept in storage buf: within the
\* size the element; past the size but within the storage what the storage
\* still holds (pop_back leaves the popped radius there); past the storage
\* whatever the heap holds
ReadLayer(buf, G, j) == IF j < Len(buf) THEN buf[j + 1] ELSE G

\* while (layer < layers.size())
\*     if (radius <= layers[layer + 1]) layer++; else break;
RECURSIVE NextLayer(_, _, _, _, _)
NextLayer(buf, n, G, layer, radius) ==
    IF layer < n /\ radius <= ReadLayer(buf, G, layer + 1)
    THEN NextLayer(buf, n, G, layer + 1, radius)
    ELSE layer

\* the stopper's layer without the decrement
StopperLayer_Kept(layer) == layer

\* the stopper's layer: if (layer) --layer
StopperLayer(layer) == IF layer # 0 THEN layer - 1 ELSE layer

\* the 1D loop as it would run down to the centre whatever the innermost
\* radius is (radius > 0 for radius > layers[layers.size() - 1])
RECURSIVE BaseCalls_ToCentre(_, _, _, _, _, _, _)
BaseCalls_ToCentre(buf, n, G, dd, point, layer, radius) ==
    IF radius > 0
    THEN <<[point |-> point, payload |-> layer]>> \o
         BaseCalls_ToCentre(buf, n, G, dd, [point EXCEPT ![dd + 1] = @ - 1],
                            NextLayer(buf, n, G, layer, radius - 1), radius - 1)
    ELSE <<[point |-> point, payload |-> StopperLayer(layer)]>>

\* the set() calls of the 1D loop and of the stopper, from the state
\* (point, layer, radius) at the loop's test
RECURSIVE BaseCalls(_, _, _, _, _, _, _)
BaseCalls(buf, n, G, dd, point, layer, radius) ==
    IF radius > buf[n]
    THEN <<[point |-> point, payload |-> layer]>> \o
         CHOOSE rest \in
             {BaseCalls(buf, n, G, dd, p, l, radius - 1) :
                 p \in {[point EXCEPT ![dd + 1] = @ - 1]},
                 l \in {NextLayer(buf, n, G, layer, radius - 1)}} : TRUE
    ELSE <<[point |-> point, payload |-> StopperLayer(layer)]>>

\* the whole 1D branch of octant(centre, layers, dd)
OctantBaseCalls(centre, buf, n, G, dd) ==
    BaseCalls(buf, n, G, dd, [centre EXCEPT ![dd + 1] = @ + buf[1]], 0, buf[1])

\* the indices j at which the layer-advance loop reads layers[j], from the
\* state (layer, radius) at its test: one read per test that finds
\* layer < layers.size()
RECURSIVE NextLayerReads(_, _, _, _, _)
NextLayerReads(buf, n, G, layer, radius) ==
    IF layer < n
    THEN {layer + 1} \cup
         IF radius <= ReadLayer(buf, G, layer + 1)
         THEN NextLayerReads(buf, n, G, layer + 1, radius)
         ELSE {}
    ELSE {}

\* the indices read by the layer-advance loop over the whole 1D loop
RECURSIVE BaseReads(_, _, _, _, _)
BaseReads(buf, n, G, layer, radius) ==
    IF radius > buf[n]
    THEN NextLayerReads(buf, n, G, layer, radius - 1) \cup
         BaseReads(buf, n, G, NextLayer(buf, n, G, layer, radius - 1),
                   radius - 1)
    ELSE {}

\* the indices the 1D branch of octant(centre, layers, dd) reads layers at
\* in its layer-advance loop
OctantBaseReads(buf, n, G) == BaseReads(buf, n, G, 0, buf[1])

(***************************************************************************)
(* hypersphere::octant, the slice radii                                    *)
(***************************************************************************)
\* criteria.push_back(1 - radius) for every layer
InitCriteria(radii) == [i \in 1..Len(radii) |-> 1 - radii[i]]

\* the for loop over the layers after ++d_diff, from index i on; the
\* vector radii has n elements in storage radii (popped ones stay behind)
RECURSIVE UpdateRadii(_, _, _, _, _)
UpdateRadii(i, radii, criteria, n, d_diff) ==
    IF ~(i < n) THEN [radii |-> radii, criteria |-> criteria, size |-> n]
    ELSE
    LET delta == radii[i + 1] - d_diff IN
    IF delta <= 0
    THEN IF 0 < i /\ radii[i + 1] + 1 <= radii[i]
         THEN [radii    |-> IF delta # 0 THEN [radii EXCEPT ![i + 1] = @ + 1]
                            ELSE radii,
               criteria |-> criteria,
               size     |-> i + 1]
         ELSE [radii |-> radii, criteria |-> criteria, size |-> i]
    ELSE
    LET dec == criteria[i + 1] > 0
        r2  == IF dec THEN [radii EXCEPT ![i + 1] = @ - 1] ELSE radii
        chi == IF dec THEN d_diff - r2[i + 1] ELSE d_diff
    IN  UpdateRadii(i + 1, r2, [criteria EXCEPT ![i + 1] = @ + 4 * chi + 1],
                    n, d_diff)

(***************************************************************************)
(* hypersphere::symmetry                                                   *)
(***************************************************************************)
\* the condition of a pass's lambda: x[d] != x[b] (diagonal), 0 != x[d] (axial)
Reflects(kind, x, dd, b) ==
    IF kind = "diagonal" THEN x[dd + 1] # x[b + 1] ELSE 0 # x[dd + 1]

\* the point y a pass's lambda builds: x with x[d] and x[b] swapped
\* (diagonal), x with x[d] negated (axial)
Reflection(kind, x, dd, b) ==
    IF kind = "diagonal"
    THEN [x EXCEPT ![dd + 1] = x[b + 1], ![b + 1] = x[dd + 1]]
    ELSE [x EXCEPT ![dd + 1] = -x[dd + 1]]

\* the set() calls of one pass: std::for_each over the copy `points` of the
\* map calls set(y, x_layer.second) for every point of the copy the lambda
\* reflects
PassCalls(copy, kind, dd, b) ==
    {[point |-> Reflection(kind, x, dd, b), payload |-> copy[x]] :
        x \in {x \in DOMAIN copy : Reflects(kind, x, dd, b)}}

\* the map after the set() calls of one pass. A pass reflects two points of
\* the copy into two different points, so no call of a pass meets an entry
\* made by another call of that pass: each call either finds its point in
\* the map as it was before the pass or adds it, in whatever order the map
\* is run through
SetEach(m, calls) ==
    [y \in DOMAIN m \cup {c.point : c \in calls} |->
        IF y \in DOMAIN m THEN m[y]
        ELSE (CHOOSE c \in calls : c.point = y).payload]

\* one iteration of a symmetry loop: copy the map, then reflect every point
\* of the copy into the map
SymmetryPass(m, kind, dd, b) ==
    CHOOSE r \in {SetEach(m, calls) : calls \in {PassCalls(m, kind, dd, b)}} : TRUE

(***************************************************************************)
(* Inputs                                                                  *)
(***************************************************************************)
NonIncreasing(s) == \A i \in 1..Len(s) - 1 : s[i] >= s[i + 1]

RadiusBound(n) ==
    IF n <= 2 THEN MaxRadius ELSE IF n = 3 THEN MaxRadius3 ELSE MaxRadius4

\* radii lists r_0 >= r_1 >= ... >= 0, and the empty list
LayerLists(r) ==
    {s \in UNION {[1..k -> 0..r] : k \in 0..MaxLayers} : NonIncreasing(s)}

\* what the documentation requires of layers: circumference-to-centre radii,
\* none negative
ValidLayers(s) == NonIncreasing(s) /\ \A i \in 1..Len(s) : s[i] >= 0

\* radii lists that break that requirement: some radius grows on the way to
\* the centre, or is negative
InvalidLayerLists ==
    {s \in UNION {[1..k -> -MaxNegative..MaxInvalidRadius] : k \in 1..MaxLayers} :
        ~ValidLayers(s)}

\* the runs of the unit test the documentation names: the default
\* (2, [12]), and (2, [11, 9, 5]), (2, [5]), (1, [3, 0])
Examples == {<<2, <<12>>>>, <<2, <<11, 9, 5>>>>, <<2, <<5>>>>, <<1, <<3, 0>>>>}

Inputs ==
    {<<n, s>> \in (0..MaxDim) \X LayerLists(Max(MaxRadius, Max(MaxRadius3, MaxRadius4))) :
        \A i \in 1..Len(s) : s[i] <= RadiusBound(n)}
    \cup {<<n, s>> \in (1..MaxDim) \X InvalidLayerLists :
            \A i \in 1..Len(s) : s[i] <= RadiusBound(n)}
    \cup Examples

\* a read past a vector's storage: a negative value, zero, a large value
GarbageValues == {-1, 0, 2147483647}

(***************************************************************************)
(* The hypersphere constructor                                             *)
(***************************************************************************)
NoResult == [op |-> "none"]

\* no symmetry pass running
NoPass == points = <<>> /\ it = 0

\* no hashtable in this run
NoLinear ==
    /\ m_hash_fn = <<>>
    /\ m_tab = <<>>
    /\ m_item_cnt = 0
    /\ m_capacity = 0
    /\ returned = {}

\* activation record of octant(centre, layers, d): `layers` is the storage
\* of the argument vector, `size` its size; radii/rsize likewise
Frame(centre, buf, n, dd) ==
    [centre |-> centre, layers |-> buf, size |-> n, d |-> dd, at |-> "entry",
     d_diff |-> 0, radii |-> <<>>, rsize |-> 0, criteria |-> <<>>]

Top == stack[Len(stack)]

\* the asserts at the head of octant
OctantPre(f) == f.d < Len(f.centre) /\ 0 < f.size

Init ==
    /\ \E in \in Inputs :
          /\ dimension = in[1]
          /\ layers = in[2]
          /\ garbage \in IF Len(in[2]) >= 2 THEN GarbageValues ELSE {0}
    /\ m_impl = EmptySet
    /\ pc = "new"
    /\ stack = <<>>
    /\ d = 0
    /\ inserted = <<>>
    /\ result = NoResult
    /\ NoLinear
    /\ NoPass

\* the constructor without its assert(0 < dimension)
Construct_NoAssert ==
    /\ pc = "new"
    /\ pc' = "octant"
    /\ stack' = <<Frame(Zero(dimension), layers, Len(layers), 0)>>
    /\ UNCHANGED <<linear_vars, pass_vars, dimension, layers, garbage, m_impl, d, inserted, result>>

\* hypersphere::hypersphere up to the call of octant(zero, layers)
Construct ==
    /\ pc = "new"
    /\ IF 0 < dimension
       THEN /\ pc' = "octant"
            /\ stack' = <<Frame(Zero(dimension), layers, Len(layers), 0)>>
       ELSE /\ pc' = "aborted"
            /\ UNCHANGED stack
    /\ UNCHANGED <<linear_vars, pass_vars, dimension, layers, garbage, m_impl, d, inserted, result>>

\* an assert at the head of octant fails
OctantAssert ==
    /\ pc = "octant"
    /\ Top.at = "entry"
    /\ ~OctantPre(Top)
    /\ pc' = "aborted"
    /\ UNCHANGED <<linear_vars, pass_vars, dimension, layers, garbage, m_impl, stack, d, inserted, result>>

\* return from octant; the outermost call returns into symmetry(dimension)
Return ==
    /\ stack' = SubSeq(stack, 1, Len(stack) - 1)
    /\ IF Len(stack) = 1
       THEN pc' = "diagonal" /\ d' = 0
       ELSE UNCHANGED <<pc, d>>

\* octant in 1D: the layers' points and the stopper, then return
OctantBase ==
    /\ pc = "octant"
    /\ Top.at = "entry"
    /\ OctantPre(Top)
    /\ Len(Top.centre) - 1 = Top.d
    /\ \E calls \in {OctantBaseCalls(Top.centre, Top.layers, Top.size,
                                      garbage, Top.d)} :
          m_impl' = SetAll(m_impl, calls, 1)
    /\ Return
    /\ UNCHANGED <<linear_vars, pass_vars, dimension, layers, garbage, inserted, result>>

\* octant above 1D: d_diff, radii and criteria before the slice loop
OctantInit ==
    /\ pc = "octant"
    /\ Top.at = "entry"
    /\ OctantPre(Top)
    /\ Len(Top.centre) - 1 # Top.d
    /\ stack' = [stack EXCEPT ![Len(stack)] =
                    [@ EXCEPT !.at = "loop",
                              !.d_diff = 0,
                              !.radii = SubSeq(Top.layers, 1, Top.size),
                              !.rsize = Top.size,
                              !.criteria = InitCriteria(SubSeq(Top.layers, 1, Top.size))]]
    /\ UNCHANGED <<linear_vars, pass_vars, dimension, layers, garbage, m_impl, pc, d, inserted, result>>

\* while (!radii.empty()): call octant(slice_centre, radii, d + 1), or return
OctantSlice ==
    /\ pc = "octant"
    /\ Top.at = "loop"
    /\ IF Top.rsize = 0
       THEN Return
       ELSE /\ stack' = Append([stack EXCEPT ![Len(stack)].at = "advance"],
                               Frame([Top.centre EXCEPT ![Top.d + 1] = @ + Top.d_diff],
                                     Top.radii, Top.rsize, Top.d + 1))
            /\ UNCHANGED <<pc, d>>
    /\ UNCHANGED <<linear_vars, pass_vars, dimension, layers, garbage, m_impl, inserted, result>>

\* the slice loop without its step: d_diff, radii and criteria stay as they
\* were when the slice was made
OctantAdvance_NoStep ==
    /\ pc = "octant"
    /\ Top.at = "advance"
    /\ stack' = [stack EXCEPT ![Len(stack)].at = "loop"]
    /\ UNCHANGED <<linear_vars, pass_vars, dimension, layers, garbage, m_impl, pc, d, inserted, result>>

\* the slice loop's step with the outermost radius taken down once more
OctantAdvance_OuterShrinks ==
    /\ pc = "octant"
    /\ Top.at = "advance"
    /\ LET u == UpdateRadii(0, Top.radii, Top.criteria, Top.rsize, Top.d_diff + 1)
       IN  stack' = [stack EXCEPT ![Len(stack)] =
                        [@ EXCEPT !.at = "loop",
                                  !.d_diff = Top.d_diff + 1,
                                  !.radii = [u.radii EXCEPT ![1] = @ - 1],
                                  !.rsize = u.size,
                                  !.criteria = u.criteria]]
    /\ UNCHANGED <<linear_vars, pass_vars, dimension, layers, garbage, m_impl, pc, d, inserted, result>>

\* after the call: ++d_diff and the update of the layers' radii and criteria
OctantAdvance ==
    /\ pc = "octant"
    /\ Top.at = "advance"
    /\ LET u == UpdateRadii(0, Top.radii, Top.criteria, Top.rsize, Top.d_diff + 1)
       IN  stack' = [stack EXCEPT ![Len(stack)] =
                        [@ EXCEPT !.at = "loop",
                                  !.d_diff = Top.d_diff + 1,
                                  !.radii = u.radii,
                                  !.rsize = u.size,
                                  !.criteria = u.criteria]]
    /\ UNCHANGED <<linear_vars, pass_vars, dimension, layers, garbage, m_impl, pc, d, inserted, result>>

\* one iteration of the diagonal symmetry loop; the last one falls through
\* to the axial loop
DiagonalPass ==
    /\ pc = "diagonal"
    /\ d < dimension
    /\ m_impl' = SymmetryPass(m_impl, "diagonal", d, (d + 1) % dimension)
    /\ IF d + 1 < dimension
       THEN d' = d + 1 /\ UNCHANGED pc
       ELSE d' = 0 /\ pc' = "axial"
    /\ UNCHANGED <<linear_vars, pass_vars, dimension, layers, garbage, stack, inserted, result>>

\* the axial loop with its reflection left out on every axis but the first
AxialPass_FirstAxis ==
    /\ pc = "axial"
    /\ d < dimension
    /\ m_impl' = IF d = 0 THEN SymmetryPass(m_impl, "axial", d, d) ELSE m_impl
    /\ IF d + 1 < dimension
       THEN d' = d + 1 /\ UNCHANGED pc
       ELSE d' = 0 /\ pc' = "done"
    /\ UNCHANGED <<linear_vars, pass_vars, dimension, layers, garbage, stack, inserted, result>>

\* one iteration of the axial symmetry loop; the last one ends the constructor
AxialPass ==
    /\ pc = "axial"
    /\ d < dimension
    /\ m_impl' = SymmetryPass(m_impl, "axial", d, d)
    /\ IF d + 1 < dimension
       THEN d' = d + 1 /\ UNCHANGED pc
       ELSE d' = 0 /\ pc' = "done"
    /\ UNCHANGED <<linear_vars, pass_vars, dimension, layers, garbage, stack, inserted, result>>

Next ==
    \/ Construct
    \/ OctantAssert
    \/ OctantBase
    \/ OctantInit
    \/ OctantSlice
    \/ OctantAdvance
    \/ DiagonalPass
    \/ AxialPass

Spec == Init /\ [][Next]_vars

\* the constructor is sequential code: while it has a step to take, it
\* takes it
SpecLive == Spec /\ WF_vars(Next)

(***************************************************************************)
(* The constructor with hypersphere::symmetry taken one element at a time  *)
(***************************************************************************)
\* the valid inputs small enough to follow every pass through the copy
InputsEach ==
    {in \in Inputs :
        /\ in[1] <= MaxDimEach
        /\ ValidLayers(in[2])
        /\ \A i \in 1..Len(in[2]) : in[2][i] <= MaxRadiusEach}

InitSymmetry ==
    /\ \E in \in InputsEach :
          /\ dimension = in[1]
          /\ layers = in[2]
          /\ garbage \in IF Len(in[2]) >= 2 THEN GarbageValues ELSE {0}
    /\ m_impl = EmptySet
    /\ pc = "new"
    /\ stack = <<>>
    /\ d = 0
    /\ inserted = <<>>
    /\ result = NoResult
    /\ NoLinear
    /\ NoPass

\* the loop a pass belongs to
Kind == IF pc \in {"diagonal", "diagonal_for_each"} THEN "diagonal" ELSE "axial"

\* const set_t points(*this): the copy, as the sequence begin() .. end()
SymmetryCopy ==
    /\ pc \in {"diagonal", "axial"}
    /\ d < dimension
    /\ points' = Entries(m_impl, DOMAIN m_impl)
    /\ it' = 0
    /\ pc' = IF pc = "diagonal" THEN "diagonal_for_each" ELSE "axial_for_each"
    /\ inserted' = <<>>
    /\ UNCHANGED <<linear_vars, dimension, layers, garbage, m_impl, stack, d, result>>

\* for_each as it would run through the map itself instead of the copy
ForEachStep_Live ==
    /\ pc \in {"diagonal_for_each", "axial_for_each"}
    /\ it < size(m_impl)
    /\ LET x_layer == Entries(m_impl, DOMAIN m_impl)[it + 1]
           b       == (d + 1) % dimension
       IN  IF Reflects(Kind, x_layer.point, d, b)
           THEN /\ m_impl' = set(m_impl, Reflection(Kind, x_layer.point, d, b),
                                 x_layer.payload)
                /\ inserted' = Append(inserted,
                                      [point   |-> Reflection(Kind, x_layer.point, d, b),
                                       payload |-> x_layer.payload])
           ELSE UNCHANGED <<m_impl, inserted>>
    /\ it' = it + 1
    /\ UNCHANGED <<linear_vars, points, dimension, layers, garbage, pc, stack, d, result>>

\* one call of the lambda, on the next element x_layer of the copy
ForEachStep ==
    /\ pc \in {"diagonal_for_each", "axial_for_each"}
    /\ it < Len(points)
    /\ LET x_layer == points[it + 1]
           b       == (d + 1) % dimension
       IN  IF Reflects(Kind, x_layer.point, d, b)
           THEN /\ m_impl' = set(m_impl, Reflection(Kind, x_layer.point, d, b),
                                 x_layer.payload)
                /\ inserted' = Append(inserted,
                                      [point   |-> Reflection(Kind, x_layer.point, d, b),
                                       payload |-> x_layer.payload])
           ELSE UNCHANGED <<m_impl, inserted>>
    /\ it' = it + 1
    /\ UNCHANGED <<linear_vars, points, dimension, layers, garbage, pc, stack, d, result>>

\* for_each has reached points.end(): ++d, and the next pass, the axial
\* loop or the end of the constructor
PassEnd ==
    /\ pc \in {"diagonal_for_each", "axial_for_each"}
    /\ it = Len(points)
    /\ points' = <<>>
    /\ it' = 0
    /\ IF d + 1 < dimension
       THEN d' = d + 1 /\ pc' = Kind
       ELSE d' = 0 /\ pc' = IF Kind = "diagonal" THEN "axial" ELSE "done"
    /\ UNCHANGED <<linear_vars, dimension, layers, garbage, m_impl, stack, inserted, result>>

NextSymmetry ==
    \/ Construct
    \/ OctantAssert
    \/ OctantBase
    \/ OctantInit
    \/ OctantSlice
    \/ OctantAdvance
    \/ SymmetryCopy
    \/ ForEachStep
    \/ PassEnd

SpecSymmetry == InitSymmetry /\ [][NextSymmetry]_vars

(***************************************************************************)
(* The pattern store alone: a points object under set() and its queries    *)
(***************************************************************************)
Points == {<<x>> : x \in -MaxCoord..MaxCoord}

Payloads == 0..MaxPayload

InitPoints ==
    /\ dimension = 1
    /\ layers = <<>>
    /\ garbage = 0
    /\ m_impl = EmptySet
    /\ pc = "points"
    /\ stack = <<>>
    /\ d = 0
    /\ inserted = <<>>
    /\ result = NoResult
    /\ NoLinear
    /\ NoPass

\* points::set(point, payload), called by a derived class
Set(point, payload) ==
    /\ pc = "points"
    /\ Len(inserted) < MaxCalls
    /\ m_impl' = set(m_impl, point, payload)
    /\ inserted' = Append(inserted, [point |-> point, payload |-> payload])
    /\ result' = [op |-> "set", status |-> "ok"]
    /\ UNCHANGED <<linear_vars, pass_vars, dimension, layers, garbage, pc, stack, d>>

\* points::size()
Size ==
    /\ pc = "points"
    /\ result' = [op |-> "size", status |-> "ok", value |-> size(m_impl)]
    /\ UNCHANGED <<linear_vars, pass_vars, dimension, layers, garbage, m_impl, pc, stack, d, inserted>>

\* point & set
Contains(point) ==
    /\ pc = "points"
    /\ result' = [op |-> "contains", status |-> "ok", point |-> point,
                  value |-> contains(m_impl, point)]
    /\ UNCHANGED <<linear_vars, pass_vars, dimension, layers, garbage, m_impl, pc, stack, d, inserted>>

\* points::get_payload(point): returns the payload or throws
GetPayload(point) ==
    /\ pc = "points"
    /\ result' = [op |-> "get_payload", point |-> point] @@ get_payload(m_impl, point)
    /\ UNCHANGED <<linear_vars, pass_vars, dimension, layers, garbage, m_impl, pc, stack, d, inserted>>

\* a run from begin() to end()
Iterate ==
    /\ pc = "points"
    /\ result' = [op |-> "iterate", status |-> "ok",
                  entries |-> Entries(m_impl, DOMAIN m_impl)]
    /\ UNCHANGED <<linear_vars, pass_vars, dimension, layers, garbage, m_impl, pc, stack, d, inserted>>

NextPoints ==
    \/ \E point \in Points, payload \in Payloads : Set(point, payload)
    \/ Size
    \/ \E point \in Points : Contains(point)
    \/ \E point \in Points : GetPayload(point)
    \/ Iterate

SpecPoints == InitPoints /\ [][NextPoints]_vars

(***************************************************************************)
(* libaccl::hash::linear<Item_t, Hash_fn, Key_t, Key_fn>                   *)
(*                                                                         *)
(* Items are pairs of a key and a value, Key_fn yields the key, Item_t()   *)
(* is the pair of zeros. Hash functors are those of the unit test, with    *)
(* the key in place of the sum of the key's characters.                    *)
(***************************************************************************)
\* the keys looked up and inserted
Keys == 0..MaxKey

\* Item_t: a key and a value
Items == [key : Keys, val : 0..MaxVal]

\* Item_t()
DefaultItem == [key |-> 0, val |-> 0]

\* m_key_fn(item)
m_key_fn(item) == item.key

\* slot(): type(EMPTY)
EmptySlot == [type |-> "EMPTY", item |-> DefaultItem]

\* slot::operator = (item): type = USED; item = it
UsedSlot(item) == [type |-> "USED", item |-> item]

\* primary_hash_fn: sum % size; secondary_hash_fn: (sum * sum) % size
Hash(fn, key, n) ==
    IF fn = "primary_hash_fn" THEN key % n ELSE (key * key) % n

\* the lists of hash functors a table is made with
HashFnLists ==
    {<<>>, <<"primary_hash_fn">>, <<"primary_hash_fn", "secondary_hash_fn">>}

\* m_capacity(capacity ? : 0.85 * size)
Capacity(n, capacity) == IF capacity # 0 THEN capacity ELSE (85 * n) \div 100

\* the pointers insert and find of get_index: whether each is non-NULL, and
\* the variable each points to
Indices(insert_p, find_p, find_init) ==
    [insert_p |-> insert_p, find_p |-> find_p,
     insert |-> "indeterminate", find |-> find_init]

\* check_index as it would be without the comparison of keys: a slot in use
\* is taken for the item looked for
CheckIndex_AnyKey(tab, key, index, ix) ==
    LET slot == tab[index + 1] IN
    IF slot.type = "USED"
    THEN [ret |-> TRUE,
          ix  |-> [ix EXCEPT !.insert = IF ix.insert_p THEN -1 ELSE @,
                             !.find   = IF ix.find_p THEN index ELSE @]]
    ELSE [ret |-> TRUE,
          ix  |-> [ix EXCEPT !.insert = IF ix.insert_p THEN index ELSE @,
                             !.find   = IF ix.find_p THEN -1 ELSE @]]

\* linear::check_index: ret is the return value, ix the pointers and the
\* variables behind them afterwards
CheckIndex(tab, key, index, ix) ==
    LET slot == tab[index + 1] IN
    CASE slot.type = "EMPTY" ->
            [ret |-> TRUE,
             ix  |-> [ix EXCEPT !.insert = IF ix.insert_p THEN index ELSE @,
                                !.find   = IF ix.find_p THEN -1 ELSE @]]
      [] slot.type = "AVAIL" ->
            IF ~ix.find_p
            THEN [ret |-> TRUE,
                  ix  |-> [ix EXCEPT !.insert = IF ix.insert_p THEN index ELSE @]]
            ELSE [ret |-> FALSE,
                  ix  |-> [ix EXCEPT !.insert = IF ix.insert_p THEN index ELSE @,
                                     !.insert_p = FALSE]]
      [] slot.type = "USED" ->
            IF m_key_fn(slot.item) = key
            THEN [ret |-> TRUE,
                  ix  |-> [ix EXCEPT !.insert = IF ix.insert_p THEN -1 ELSE @,
                                     !.find   = IF ix.find_p THEN index ELSE @]]
            ELSE [ret |-> FALSE, ix |-> ix]

\* get_index, the loop over the hash functors from functor i on; index is
\* the index computed last
RECURSIVE HashLoop(_, _, _, _, _, _)
HashLoop(tab, hash_fn, key, i, index, ix) ==
    IF ~(i < Len(hash_fn)) THEN [ret |-> FALSE, ix |-> ix, index |-> index]
    ELSE LET index1 == Hash(hash_fn[i + 1], key, Len(tab))
             r      == CheckIndex(tab, key, index1, ix)
         IN  IF r.ret THEN [ret |-> TRUE, ix |-> r.ix, index |-> index1]
             ELSE HashLoop(tab, hash_fn, key, i + 1, index1, r.ix)

\* get_index, the collision string: the slots in a row from begin_ix on,
\* round the table
RECURSIVE CollisionString(_, _, _, _, _)
CollisionString(tab, key, begin_ix, index, ix) ==
    LET r == CheckIndex(tab, key, index, ix) IN
    IF r.ret THEN r.ix
    ELSE LET next == IF index + 1 < Len(tab) THEN index + 1 ELSE 0 IN
         IF begin_ix = next
         THEN [r.ix EXCEPT !.insert = IF r.ix.insert_p THEN -1 ELSE @,
                           !.find   = IF r.ix.find_p THEN -1 ELSE @]
         ELSE CollisionString(tab, key, begin_ix, next, r.ix)

\* linear::get_index
get_index(tab, hash_fn, item_cnt, capacity, key, ix) ==
    LET ix1 == IF ~(item_cnt < capacity)
               THEN [ix EXCEPT !.insert = IF ix.insert_p THEN -1 ELSE @,
                               !.insert_p = FALSE]
               ELSE ix
    IN  IF ~(item_cnt < capacity) /\ ~ix.find_p THEN ix1
        ELSE LET h == HashLoop(tab, hash_fn, key, 0, 0, ix1) IN
             IF h.ret THEN h.ix
             ELSE CollisionString(tab, key, h.index, h.index, h.ix)

\* linear::insert_index
insert_index(tab, hash_fn, item_cnt, capacity, key) ==
    get_index(tab, hash_fn, item_cnt, capacity, key,
              Indices(TRUE, FALSE, "indeterminate")).insert

\* linear::find_index
find_index(tab, hash_fn, item_cnt, capacity, key) ==
    get_index(tab, hash_fn, item_cnt, capacity, key,
              Indices(FALSE, TRUE, 0)).find

\* linear::find
find(tab, hash_fn, item_cnt, capacity, key) ==
    find_index(tab, hash_fn, item_cnt, capacity, key)

\* linear::exists
exists(tab, hash_fn, item_cnt, capacity, key) ==
    -1 # find_index(tab, hash_fn, item_cnt, capacity, key)

\* the table's configurations: size, hash functors, capacity argument (0
\* for the default); the constructor throws on a capacity above the size
InitLinear ==
    /\ dimension = 1
    /\ layers = <<>>
    /\ garbage = 0
    /\ m_impl = EmptySet
    /\ pc = "linear"
    /\ stack = <<>>
    /\ d = 0
    /\ inserted = <<>>
    /\ result = NoResult
    /\ \E n \in 1..MaxSize, capacity \in 0..MaxSize :
          /\ Capacity(n, capacity) <= n
          /\ m_tab = [i \in 1..n |-> EmptySlot]
          /\ m_capacity = Capacity(n, capacity)
    /\ m_hash_fn \in HashFnLists
    /\ m_item_cnt = 0
    /\ returned = {}
    /\ NoPass

\* linear::insert(item)
Insert(item) ==
    /\ pc = "linear"
    /\ LET index == insert_index(m_tab, m_hash_fn, m_item_cnt, m_capacity,
                                 m_key_fn(item))
       IN  /\ IF 0 <= index
              THEN /\ m_tab' = [m_tab EXCEPT ![index + 1] = UsedSlot(item)]
                   /\ returned' = returned \cup {[item |-> item, index |-> index]}
              ELSE UNCHANGED <<m_tab, returned>>
           /\ result' = [op |-> "insert", item |-> item, index |-> index,
                         before |-> m_tab]
    /\ UNCHANGED <<m_hash_fn, m_item_cnt, m_capacity>>
    /\ UNCHANGED <<pass_vars, dimension, layers, garbage, m_impl, pc, stack, d, inserted>>

\* linear::find(key)
Find(key) ==
    /\ pc = "linear"
    /\ result' = [op |-> "find", key |-> key,
                  index |-> find(m_tab, m_hash_fn, m_item_cnt, m_capacity, key)]
    /\ UNCHANGED linear_vars
    /\ UNCHANGED <<pass_vars, dimension, layers, garbage, m_impl, pc, stack, d, inserted>>

\* linear::exists(key)
Exists(key) ==
    /\ pc = "linear"
    /\ result' = [op |-> "exists", key |-> key,
                  value |-> exists(m_tab, m_hash_fn, m_item_cnt, m_capacity, key)]
    /\ UNCHANGED linear_vars
    /\ UNCHANGED <<pass_vars, dimension, layers, garbage, m_impl, pc, stack, d, inserted>>

\* linear::operator [] (key): the item found, or a new Item_t() stored at
\* the insert index, or the std::runtime_error
Subscript(key) ==
    /\ pc = "linear"
    /\ LET ix == get_index(m_tab, m_hash_fn, m_item_cnt, m_capacity, key,
                           Indices(TRUE, TRUE, "indeterminate"))
       IN  IF 0 <= ix.find
           THEN /\ result' = [op |-> "subscript", key |-> key, status |-> "ok",
                              index |-> ix.find, item |-> m_tab[ix.find + 1].item,
                              before |-> m_tab]
                /\ UNCHANGED m_tab
           ELSE IF 0 > ix.insert
           THEN /\ result' = [op |-> "subscript", key |-> key,
                              status |-> "runtime_error", before |-> m_tab]
                /\ UNCHANGED m_tab
           ELSE /\ m_tab' = [m_tab EXCEPT ![ix.insert + 1] = UsedSlot(DefaultItem)]
                /\ result' = [op |-> "subscript", key |-> key, status |-> "ok",
                              index |-> ix.insert, item |-> DefaultItem,
                              before |-> m_tab]
    /\ UNCHANGED <<m_hash_fn, m_item_cnt, m_capacity, returned>>
    /\ UNCHANGED <<pass_vars, dimension, layers, garbage, m_impl, pc, stack, d, inserted>>

NextLinear ==
    \/ \E item \in Items : Insert(item)
    \/ \E key \in Keys : Find(key)
    \/ \E key \in Keys : Exists(key)
    \/ \E key \in Keys : Subscript(key)

SpecLinear == InitLinear /\ [][NextLinear]_vars

(***************************************************************************)
(* Properties of the pattern store                                         *)
(***************************************************************************)
\* the points of the set() calls made so far
InsertedPoints == {inserted[i].point : i \in 1..Len(inserted)}

\* the first set() call made for point p
FirstCall(p) ==
    inserted[CHOOSE i \in 1..Len(inserted) :
                /\ inserted[i].point = p
                /\ \A j \in 1..i - 1 : inserted[j].point # p]

\* C1: insertion is first-write-wins. After any sequence of set() calls the
\* stored points are the points inserted, each with the payload of its first
\* insertion (so a set() of a stored point changed neither its payload nor
\* any other entry), and size() is the number of distinct points inserted.
C1_FirstWriteWins ==
    pc = "points" =>
        /\ DOMAIN m_impl = InsertedPoints
        /\ \A p \in DOMAIN m_impl : m_impl[p] = FirstCall(p).payload
        /\ size(m_impl) = Cardinality(InsertedPoints)

\* C1 witness: a stored point has been inserted again with another payload
C1_Witness ==
    /\ pc = "points"
    /\ result.op = "set"
    /\ \E i, j \in 1..Len(inserted) :
          /\ i < j
          /\ inserted[i].point = inserted[j].point
          /\ inserted[i].payload # inserted[j].payload

\* C9: get_payload(p) returns the stored payload when p is stored and fails
\* with the exception exactly when contains(p) is false, leaving the store
\* as the insertions made it; every entry a run over the store yields
\* satisfies contains and get_payload succeeds on it with the entry's
\* payload; no other query fails.
C9_LookupConsistency ==
    pc = "points" =>
        /\ result.op = "get_payload" =>
              /\ IF contains(m_impl, result.point)
                 THEN result.status = "ok" /\ result.payload = m_impl[result.point]
                 ELSE result.status = "runtime_error"
              /\ DOMAIN m_impl = InsertedPoints
              /\ \A p \in DOMAIN m_impl : m_impl[p] = FirstCall(p).payload
        /\ result.op = "iterate" =>
              /\ {result.entries[i].point : i \in 1..Len(result.entries)} = DOMAIN m_impl
              /\ \A i \in 1..Len(result.entries) :
                    /\ contains(m_impl, result.entries[i].point)
                    /\ get_payload(m_impl, result.entries[i].point) =
                          [status |-> "ok", payload |-> result.entries[i].payload]
        /\ result.op \in {"size", "contains", "iterate"} => result.status = "ok"
        /\ result.op = "contains" =>
              result.value = (result.point \in InsertedPoints)

\* C9 witness: a lookup of an absent point has failed on a non-empty store
C9_Witness ==
    /\ pc = "points"
    /\ result.op = "get_payload"
    /\ result.status = "runtime_error"
    /\ m_impl # EmptySet

(***************************************************************************)
(* Properties of the constructed hypersphere                               *)
(***************************************************************************)
\* squared Euclidean distance of p from the centre
RECURSIVE SumSq(_, _)
SumSq(p, i) == IF i > Len(p) THEN 0 ELSE p[i] * p[i] + SumSq(p, i + 1)

Dist2(p) == SumSq(p, 1)

Swap(p, i, j) == [p EXCEPT ![i] = p[j], ![j] = p[i]]

Negate(p, i) == [p EXCEPT ![i] = -p[i]]

Stored == DOMAIN m_impl

\* the constructor's arguments are as the documentation requires them
ValidInput == 0 < dimension /\ 0 < Len(layers) /\ ValidLayers(layers)

PayloadsStored == {m_impl[p] : p \in Stored}

\* C2: symmetry closure. Every permutation of the coordinates is a product
\* of swaps of two coordinates and every combination of sign flips a product
\* of single flips, so the stored set is closed under all of them, payload
\* included, exactly if for every stored point every swap of two coordinates
\* and every flip of one coordinate is stored with the same payload.
C2_SymmetryClosure ==
    (pc = "done" /\ ValidInput) =>
        \A p \in Stored :
            /\ \A i, j \in 1..dimension :
                  /\ Swap(p, i, j) \in Stored
                  /\ m_impl[Swap(p, i, j)] = m_impl[p]
            /\ \A i \in 1..dimension :
                  /\ Negate(p, i) \in Stored
                  /\ m_impl[Negate(p, i)] = m_impl[p]

\* the first octant of the classic midpoint circle algorithm, from (x, y)
\* with decision variable dv: while x <= y: plot; x++; if dv < 0 then
\* dv += 2x + 1 else y--, dv += 2(x - y) + 1
RECURSIVE MidpointOctant(_, _, _)
MidpointOctant(x, y, dv) ==
    IF x > y THEN {}
    ELSE {<<x, y>>} \cup
         IF dv < 0
         THEN MidpointOctant(x + 1, y, dv + 2 * (x + 1) + 1)
         ELSE MidpointOctant(x + 1, y - 1, dv + 2 * ((x + 1) - (y - 1)) + 1)

\* all 8 reflections of the points of S
Reflections8(S) ==
    UNION {{<<sx * q[1], sy * q[2]>>, <<sx * q[2], sy * q[1]>>} :
              <<q, sx, sy>> \in S \X {-1, 1} \X {-1, 1}}

MidpointCircle(R) == Reflections8(MidpointOctant(0, R, 1 - R))

\* C3: the points of hypersphere(2, [R]) are those of the classic midpoint
\* circle algorithm for radius R.
C3_MidpointCircle ==
    (pc = "done" /\ dimension = 2 /\ Len(layers) = 1 /\ ValidInput) =>
        Stored = MidpointCircle(layers[1])

\* C4: completeness. Every integer point p with r_{k-1} <= |p| <= r_0 is
\* stored.
C4_Completeness ==
    (pc = "done" /\ ValidInput) =>
        \A p \in [1..dimension -> -layers[1]..layers[1]] :
            (/\ layers[Len(layers)] * layers[Len(layers)] <= Dist2(p)
             /\ Dist2(p) <= layers[1] * layers[1])
            => p \in Stored

\* C5: layer monotonicity. Of two stored points the one farther from the
\* centre never has the larger layer index.
C5_LayerMonotonicity ==
    (pc = "done" /\ ValidInput) =>
        \A p, q \in Stored : Dist2(p) > Dist2(q) => m_impl[p] <= m_impl[q]

C10_PreconditionFailure ==
    /\ dimension = 0 => (pc \in {"new", "aborted"} /\ stack = <<>>)
    /\ (dimension = 0 \/ Len(layers) = 0) =>
          /\ m_impl = EmptySet
          /\ \/ pc \in {"new", "aborted"}
             \/ pc = "octant" /\ Len(stack) = 1 /\ Top.at = "entry"

\* C10 witness: the construction with an empty layers list has been aborted
C10_Witness ==
    /\ pc = "aborted"
    /\ dimension > 0
    /\ Len(layers) = 0

\* C11: a layers list that is not non-increasing or that holds a negative
\* radius is refused: the constructor never completes on it, so no instance
\* results.
C11_InvalidLayersRefused ==
    ~ValidLayers(layers) => pc # "done"

UsedIndices(tab) == {i \in 0..Len(tab) - 1 : tab[i + 1].type = "USED"}

\* some slot in use of table tab holds an item with this key
Stores(tab, key) == \E i \in UsedIndices(tab) : m_key_fn(tab[i + 1].item) = key

\* every slot in use was filled by insert(): no operator [] call has
\* stored an item
InsertOnly ==
    \A i \in UsedIndices(m_tab) :
        [item |-> m_tab[i + 1].item, index |-> i] \in returned

\* C13: find after insert. After any sequence of insert calls, for every
\* key whose insert returned an index i >= 0, find(key) returns i, slot i
\* holds the item and exists(key) is true; for every key never stored find
\* returns -1 and exists is false; the find and exists calls made return
\* just that.
C13_FindAfterInsert ==
    (pc = "linear" /\ InsertOnly) =>
        /\ \A r \in returned :
              /\ find(m_tab, m_hash_fn, m_item_cnt, m_capacity, m_key_fn(r.item)) = r.index
              /\ m_tab[r.index + 1] = UsedSlot(r.item)
              /\ exists(m_tab, m_hash_fn, m_item_cnt, m_capacity, m_key_fn(r.item))
        /\ \A key \in Keys :
              (\A r \in returned : m_key_fn(r.item) # key) =>
                  /\ find(m_tab, m_hash_fn, m_item_cnt, m_capacity, key) = -1
                  /\ ~exists(m_tab, m_hash_fn, m_item_cnt, m_capacity, key)
        /\ result.op = "find" =>
              IF \E r \in returned : m_key_fn(r.item) = result.key
              THEN \E r \in returned :
                      m_key_fn(r.item) = result.key /\ r.index = result.index
              ELSE result.index = -1
        /\ result.op = "exists" =>
              result.value = (\E r \in returned : m_key_fn(r.item) = result.key)

\* C13 witness: in a table of two hash functors filled by insert() alone, a
\* key has been found in the collision string, at neither of its hash
\* indices
C13_Witness ==
    /\ pc = "linear"
    /\ InsertOnly
    /\ Len(m_hash_fn) = 2
    /\ result.op = "find"
    /\ result.index >= 0
    /\ \A i \in 1..Len(m_hash_fn) :
          result.index # Hash(m_hash_fn[i], result.key, Len(m_tab))

\* C14: duplicate insert. An insert of an item whose key is stored in the
\* table returns -1 and leaves every slot as it was.
C14_DuplicateInsert ==
    (pc = "linear" /\ result.op = "insert"
        /\ Stores(result.before, m_key_fn(result.item))) =>
        /\ result.index = -1
        /\ m_tab = result.before

\* C15: overfill. The number of slots in use never exceeds capacity(), and
\* an insert of a new key made with capacity() slots in use returns -1 and
\* leaves the table as it was.
C15_Overfill ==
    pc = "linear" =>
        /\ Cardinality(UsedIndices(m_tab)) <= m_capacity
        /\ (/\ result.op = "insert"
             /\ ~Stores(result.before, m_key_fn(result.item))
             /\ Cardinality(UsedIndices(result.before)) >= m_capacity) =>
                /\ result.index = -1
                /\ m_tab = result.before

\* C16: operator []. tab[key] returns the stored item with that key and
\* leaves the table as it was when the key is stored; when it is not, it
\* stores a new item in exactly one slot not in use before and returns it,
\* or throws and leaves the table as it was.
C16_Subscript ==
    (pc = "linear" /\ result.op = "subscript") =>
        IF Stores(result.before, result.key)
        THEN /\ result.status = "ok"
             /\ m_tab = result.before
             /\ result.index \in UsedIndices(result.before)
             /\ result.item = result.before[result.index + 1].item
             /\ m_key_fn(result.item) = result.key
        ELSE IF result.status = "ok"
        THEN /\ result.index \notin UsedIndices(result.before)
             /\ m_tab = [result.before EXCEPT ![result.index + 1] = UsedSlot(result.item)]
        ELSE /\ result.status = "runtime_error"
             /\ m_tab = result.before

(***************************************************************************)
(* Properties of a symmetry pass                                           *)
(***************************************************************************)
\* the reflection of the running pass: the coordinates d and b swapped
\* (diagonal), the coordinate d negated (axial)
Mirror(p) ==
    IF Kind = "diagonal" THEN Swap(p, d + 1, ((d + 1) % dimension) + 1)
    ELSE Negate(p, d + 1)

\* the points of the copy, and those for_each has done
CopyPoints(n) == {points[j].point : j \in 1..n}

\* the elements of the copy for_each has done and the pass reflects: those
\* with a differing pair of coordinates (diagonal), a non-zero coordinate
\* (axial)
Sources == {j \in 1..it : Mirror(points[j].point) # points[j].point}

\* C17: snapshot per symmetry pass. While a pass runs, the store is the
\* store as the pass found it (the copy) plus the reflections of the
\* elements of the copy done so far, each with its source's payload unless
\* the point was there already; every entry the pass found is still there
\* with its payload; the set() calls made are one per reflected element of
\* the copy, none for a point the pass itself inserted. When for_each ends
\* that is the store before the pass plus the reflections of all its
\* points.
C17_SnapshotPerPass ==
    pc \in {"diagonal_for_each", "axial_for_each"} =>
        LET before == CopyPoints(Len(points))
            calls  == {[point   |-> Mirror(points[j].point),
                        payload |-> points[j].payload] : j \in Sources}
        IN  /\ it <= Len(points)
            /\ Stored = before \cup {Mirror(p) : p \in CopyPoints(it)}
            /\ \A j \in 1..Len(points) : m_impl[points[j].point] = points[j].payload
            /\ \A j \in 1..it :
                  Mirror(points[j].point) \notin before =>
                      m_impl[Mirror(points[j].point)] = points[j].payload
            /\ Len(inserted) = Cardinality(Sources)
            /\ \A i \in 1..Len(inserted) : inserted[i] \in calls

\* C17 witness: a pass in 3 dimensions has run through its copy; it met a
\* point whose reflection was stored already with another payload, and has
\* added a point
C17_Witness ==
    /\ pc \in {"diagonal_for_each", "axial_for_each"}
    /\ dimension = 3
    /\ it = Len(points)
    /\ it > 0
    /\ \E j \in 1..it :
          /\ Mirror(points[j].point) \in CopyPoints(Len(points))
          /\ m_impl[Mirror(points[j].point)] # points[j].payload
    /\ size(m_impl) > Len(points)

(***************************************************************************)
(* Properties of the octant recursion                                      *)
(***************************************************************************)
\* the layers the step to slice offset D updates: those before the first
\* layer whose radius the offset has reached
Updated(radii, n, D) == {i \in 1..n : \A j \in 1..i : radii[j] - D > 0}

\* C18: slice-radius recurrence. octant initialises each layer's decision
\* variable to 1 - radius; on the step to slice offset D it decrements the
\* slice radius of a layer exactly when the layer's decision variable is
\* non-negative, and adds 4 * (D - radius) + 2 to the decision variable when
\* it decrements the radius and 4 * D + 2 when it keeps it.
C18_SliceRadiusRecurrence ==
    [][(pc = "octant" /\ Top.at \in {"entry", "advance"} /\ pc' = "octant"
            /\ Len(stack') = Len(stack) /\ stack'[Len(stack)].at = "loop") =>
        LET new == stack'[Len(stack)]
            D   == Top.d_diff + 1
        IN  IF Top.at = "entry"
            THEN \A i \in 1..new.rsize : new.criteria[i] = 1 - new.radii[i]
            ELSE \A i \in Updated(Top.radii, Top.rsize, D) :
                    IF Top.criteria[i] >= 0
                    THEN /\ new.radii[i] = Top.radii[i] - 1
                         /\ new.criteria[i] =
                                Top.criteria[i] + 4 * (D - new.radii[i]) + 2
                    ELSE /\ new.radii[i] = Top.radii[i]
                         /\ new.criteria[i] = Top.criteria[i] + 4 * D + 2
      ]_vars

\* octant is about to run its 1D branch
AtBaseCase ==
    /\ pc = "octant"
    /\ Top.at = "entry"
    /\ OctantPre(Top)
    /\ Len(Top.centre) - 1 = Top.d

\* the set() calls the 1D branch is about to make
TopBaseCalls ==
    OctantBaseCalls(Top.centre, Top.layers, Top.size, garbage, Top.d)

\* the offset from the slice centre of the point of a call, along axis d
Offset(call) == call.point[Top.d + 1] - Top.centre[Top.d + 1]

\* the number of layers exhausted at an offset: the layers after the
\* outermost whose radius the offset has come down to
Exhausted(offset) ==
    Cardinality({i \in 2..Top.size : offset <= Top.layers[i]})

\* C19: base-case tagging. In the 1D base case called with k radii, every
\* point emitted at an offset above the innermost radius is tagged with the
\* number of layers exhausted at that offset (none at the first point, which
\* opens the outermost layer), and the last point emitted, the stopper, with
\* k - 1; so for every radii list the recursion passes down.
C19_BaseCaseTagging ==
    (AtBaseCase /\ ValidInput) =>
        /\ \A j \in 1..Len(TopBaseCalls) - 1 :
              TopBaseCalls[j].payload =
                  IF j = 1 THEN 0 ELSE Exhausted(Offset(TopBaseCalls[j]))
        /\ TopBaseCalls[Len(TopBaseCalls)].payload = Top.size - 1

\* C20: permutation coverage of the diagonal passes. For every dimension
\* from 1 to 4 the stored point set is, after construction, closed under
\* every permutation of the coordinates: every permutation is a product of
\* swaps of two coordinates, so with every stored point each of its swaps is
\* stored (whatever its payload).
C20_PermutationCoverage ==
    (pc = "done" /\ ValidInput /\ dimension \in 1..4) =>
        \A p \in Stored : \A i, j \in 1..dimension : Swap(p, i, j) \in Stored

\* the points that differ from p in the signs of coordinates only
SignCombinations(p) ==
    {q \in Stored : \A i \in 1..dimension : q[i] \in {p[i], -p[i]}}

\* C21: axial closure. After construction, for every stored point and every
\* set of axes the point with the coordinates on those axes negated is
\* stored with the same payload; negating a set of axes is negating them one
\* after another, so it is enough that every negation of one coordinate of
\* every stored point is stored with the point's payload. A point with no
\* zero coordinate then appears in 2^dimension sign combinations.
C21_AxialClosure ==
    (pc = "done" /\ ValidInput) =>
        \A p \in Stored :
            /\ \A i \in 1..dimension :
                  /\ Negate(p, i) \in Stored
                  /\ m_impl[Negate(p, i)] = m_impl[p]
            /\ (\A i \in 1..dimension : p[i] # 0) =>
                  Cardinality(SignCombinations(p)) = 2 ^ dimension

\* a construction in three dimensions has ended with a point of the first
\* hyperoctant that has no zero coordinate, stored in all its 8 sign
\* combinations with one payload
C21_Witness ==
    /\ pc = "done"
    /\ ValidInput
    /\ dimension = 3
    /\ \E p \in Stored :
          /\ \A i \in 1..dimension : p[i] > 0
          /\ Cardinality(SignCombinations(p)) = 8
          /\ \A q \in SignCombinations(p) : m_impl[q] = m_impl[p]

\* C22: in-bounds layer reads. For every valid input, whenever the 1D base
\* case reads layers[layer + 1] in its layer-advance loop, layer + 1 is
\* less than layers.size(): every index read is within the list.
C22_InBoundsLayerReads ==
    (AtBaseCase /\ ValidInput) =>
        \A j \in OctantBaseReads(Top.layers, Top.size, garbage) : j < Top.size

\* the radii list a frame of octant was called with
Passed(f) == SubSeq(f.layers, 1, f.size)

\* C23: reduced radii list invariant. For every valid top-level input,
\* every radii list octant passes to a recursive slice call is non-empty,
\* has non-negative entries, is non-increasing from outer to inner and is no
\* longer than the list the caller received, and the preconditions asserted
\* at the top of octant hold in the call.
C23_ReducedRadiiList ==
    (pc = "octant" /\ ValidInput) =>
        \A k \in 2..Len(stack) :
            /\ stack[k].size > 0
            /\ ValidLayers(Passed(stack[k]))
            /\ stack[k].size <= stack[k - 1].size
            /\ OctantPre(stack[k])

\* a construction in three dimensions is two slice calls deep: the first
\* call got a list shorter than the caller's, the second a list of two
\* radii whose outer radius is below the outer radius given to the
\* constructor
C23_Witness ==
    /\ pc = "octant"
    /\ ValidInput
    /\ Len(stack) = 3
    /\ stack[2].size < stack[1].size
    /\ stack[3].size = 2
    /\ Passed(stack[3])[1] < layers[1]

\* C24: hashtable key uniqueness. After any interleaved sequence of insert
\* and operator [] calls, no two slots in use hold items with equal keys,
\* and the item in every slot in use is found by find(its key) at that
\* slot.
C24_KeyUniqueness ==
    pc = "linear" =>
        /\ \A i, j \in UsedIndices(m_tab) :
              m_key_fn(m_tab[i + 1].item) = m_key_fn(m_tab[j + 1].item) => i = j
        /\ \A i \in UsedIndices(m_tab) :
              find(m_tab, m_hash_fn, m_item_cnt, m_capacity,
                   m_key_fn(m_tab[i + 1].item)) = i

====
